---- MODULE Spec2Model ----
(***************************************************************************)
(* Q-TRUTH (src/main.py): one linear pipeline                              *)
(*   from_image -> q_coherence_scan -> ask(stage 1) -> ask(stage 2)        *)
(*   -> report -> open/json.dump                                           *)
(* Floats are modelled in binary fixed point (unit ONE); the quantum       *)
(* register of DEV is the full 2^7 complex state vector.                   *)
(***************************************************************************)
EXTENDS Integers, Sequences, FiniteSets, TLC

\* ------------------------------------------------------------------ bounds
\* length of a face-descriptor vector in the model (128 in the library)
VecLen == 2
\* most pixels of an input image
MaxPixels == 2
\* most calls of q_coherence_scan in the circuit specification
MaxCalls == 2
\* most runs of run_analysis in the pipeline specification
MaxRuns == 2
\* last clock tick of the pipeline specification
MaxClock == 3

\* ------------------------------------------------------- fixed-point floats
\* float 1.0
ONE == 4096
\* math.pi
PI == 12868
\* 1/sqrt(2), the entry of the Hadamard matrix
INV_SQRT2 == 2896
\* clock ticks in one second: int(time.time()) drops the fraction
TicksPerSec == 2

Min(a, b) == IF a < b THEN a ELSE b

\* x / n rounded to the nearest (floats round to nearest)
RoundDiv(x, n) == (2 * x + n) \div (2 * n)

\* a * b of two fixed-point numbers
FMul(a, b) == RoundDiv(a * b, ONE)

RECURSIVE SqrtSearch(_, _, _)
SqrtSearch(n, lo, hi) ==
    IF lo >= hi THEN lo
    ELSE LET mid == (lo + hi + 1) \div 2
         IN  IF mid * mid <= n THEN SqrtSearch(n, mid, hi)
                               ELSE SqrtSearch(n, lo, mid - 1)

\* floor of the square root
ISqrt(n) == SqrtSearch(n, 0, 4 * ONE)

\* the sum of s[lo..hi], halving the range
RECURSIVE SumRange(_, _, _)
SumRange(s, lo, hi) ==
    IF lo > hi THEN 0
    ELSE IF lo = hi THEN s[lo]
    ELSE LET mid == (lo + hi) \div 2
         IN  SumRange(s, lo, mid) + SumRange(s, mid + 1, hi)

SumSeq(s) == SumRange(s, 1, Len(s))

\* np.linalg.norm(vector): components in fixed point, so is the result
Norm(vector) == ISqrt(SumSeq([i \in 1..Len(vector) |-> vector[i] * vector[i]]))

\* cos and sin of a fixed-point angle in [0, pi/2], by their Taylor series
RECURSIVE Taylor(_, _, _, _)
Taylor(term, x2, k, last) ==
    IF k > last THEN 0
    ELSE term + Taylor(-RoundDiv(FMul(term, x2), k * (k + 1)), x2, k + 2, last)

Cos(x) == Taylor(ONE, FMul(x, x), 1, 11)
Sin(x) == Taylor(x, FMul(x, x), 2, 12)

\* ------------------------------------------------- cv2.cvtColor, 8-bit HSV
Max3(a, b, c) == IF a >= b /\ a >= c THEN a ELSE IF b >= c THEN b ELSE c
Min3(a, b, c) == IF a <= b /\ a <= c THEN a ELSE IF b <= c THEN b ELSE c

\* hue range of the 8-bit conversion: H is stored as degrees / 2
HRange == 180
HsvShift == 12

\* one pixel <<r, g, b>> to <<h, s, v>>, in OpenCV's integer arithmetic
RGB2HSV(px) ==
    LET r == px[1]
        g == px[2]
        b == px[3]
        v == Max3(r, g, b)
        vmin == Min3(r, g, b)
        diff == v - vmin
        sdiv == IF v = 0 THEN 0 ELSE RoundDiv(255 * 2^HsvShift, v)
        hdiv == IF diff = 0 THEN 0 ELSE RoundDiv(HRange * 2^HsvShift, 6 * diff)
        s == (diff * sdiv + 2^(HsvShift - 1)) \div 2^HsvShift
        h0 == IF v = r THEN g - b
              ELSE IF v = g THEN b - r + 2 * diff
              ELSE r - g + 4 * diff
        h1 == (h0 * hdiv + 2^(HsvShift - 1)) \div 2^HsvShift
        h == IF h1 < 0 THEN h1 + HRange ELSE h1
    IN  <<h, s, v>>

\* ------------------------------------------------------------- from_image
NoFace == "ValueError: No face found in image."

\* .mean(axis=(0,1)) of one channel of the converted image
ChannelMean(pixels, c) ==
    RoundDiv(SumSeq([i \in 1..Len(pixels) |-> RGB2HSV(pixels[i])[c]]) * ONE,
             Len(pixels))

\* a variant that forgets the clamp at 1.0
ThetaOf_unclamped(vector) == FMul(Norm(vector), PI)

\* line 57: theta = min(np.linalg.norm(vector), 1.0) * math.pi
ThetaOf(vector) == FMul(Min(Norm(vector), ONE), PI)

\* a variant that divides each channel by the other channel's range
ColorAvgOf_swapped(pixels) ==
    <<RoundDiv(ChannelMean(pixels, 1), 255), RoundDiv(ChannelMean(pixels, 2), 180)>>

\* lines 58-59: color_avg = (color_mean[0] / 180.0, color_mean[1] / 255.0)
ColorAvgOf(pixels) ==
    <<RoundDiv(ChannelMean(pixels, 1), 180), RoundDiv(ChannelMean(pixels, 2), 255)>>

\* a variant without the check for an empty list of faces
from_image_unchecked(image) ==
    LET v == IF image.faces = <<>> THEN [i \in 1..VecLen |-> 0] ELSE image.faces[1]
    IN  [raised |-> "",
         vector |-> v,
         theta |-> ThetaOf(v),
         color_avg |-> ColorAvgOf(image.pixels)]

\* QuantumImageProfile.from_image: an image is its pixels and the encodings
\* face_recognition finds in it
from_image(image) ==
    IF image.faces = <<>>
    THEN [raised |-> NoFace]
    ELSE [raised |-> "",
          vector |-> image.faces[1],
          theta |-> ThetaOf(image.faces[1]),
          color_avg |-> ColorAvgOf(image.pixels)]

\* ------------------------------------------------ DEV: default.qubit, 7 wires
Wires == 7
Basis == 0..(2^Wires - 1)

\* the bit of wire w in basis state b (wire 0 is the most significant)
Bit(b, w) == (b \div 2^(Wires - 1 - w)) % 2
Flip(b, w) == IF Bit(b, w) = 0 THEN b + 2^(Wires - 1 - w) ELSE b - 2^(Wires - 1 - w)

\* complex numbers <<re, im>> in fixed point
CAdd(a, b) == <<a[1] + b[1], a[2] + b[2]>>
CMul(a, b) == <<RoundDiv(a[1] * b[1] - a[2] * b[2], ONE),
                RoundDiv(a[1] * b[2] + a[2] * b[1], ONE)>>
Abs2(a) == RoundDiv(a[1] * a[1] + a[2] * a[2], ONE)

\* |0000000>, the state the device is reset to before a tape is executed
ZeroState == [b \in Basis |-> IF b = 0 THEN <<ONE, 0>> ELSE <<0, 0>>]

\* the 2x2 matrix <<m00, m01, m10, m11>> of a one-wire operation
Matrix(op) ==
    LET c == Cos(op.par \div 2)
        s == Sin(op.par \div 2)
    IN  CASE op.name = "RY" -> << <<c, 0>>, <<-s, 0>>, <<s, 0>>, <<c, 0>> >>
          [] op.name = "RX" -> << <<c, 0>>, <<0, -s>>, <<0, -s>>, <<c, 0>> >>
          [] op.name = "RZ" -> << <<c, -s>>, <<0, 0>>, <<0, 0>>, <<c, s>> >>
          [] op.name = "Hadamard" ->
                << <<INV_SQRT2, 0>>, <<INV_SQRT2, 0>>,
                   <<INV_SQRT2, 0>>, <<-INV_SQRT2, 0>> >>

\* the register after one queued operation
Apply(state, op) ==
    IF op.name = "CNOT"
    THEN [b \in Basis |->
            IF Bit(b, op.wires[1]) = 1 THEN state[Flip(b, op.wires[2])] ELSE state[b]]
    ELSE LET m == Matrix(op)
             w == op.wires[1]
         IN  [b \in Basis |->
                IF Bit(b, w) = 0
                THEN CAdd(CMul(m[1], state[b]), CMul(m[2], state[Flip(b, w)]))
                ELSE CAdd(CMul(m[3], state[Flip(b, w)]), CMul(m[4], state[b]))]

\* the register after the queued operations ops[1..n]; each intermediate
\* register is compared with ZeroState so that it is computed once
RECURSIVE ApplyAll(_, _, _)
ApplyAll(state, ops, n) ==
    IF n = 0 THEN state
    ELSE LET before == ApplyAll(state, ops, n - 1)
             after == Apply(before, ops[n])
         IN  IF after = ZeroState THEN ZeroState ELSE after

\* qml.expval(qml.PauliZ(w)) in a register state
ExpvalZ(state, w) ==
    SumSeq([i \in 1..(2^Wires) |->
              IF Bit(i - 1, w) = 0 THEN Abs2(state[i - 1]) ELSE -Abs2(state[i - 1])])

\* the operations the body of q_coherence_scan queues, in order
Tape(theta, color_avg) ==
    << [name |-> "RY", wires |-> <<0>>, par |-> theta],
       [name |-> "RX", wires |-> <<1>>, par |-> color_avg[1]],
       [name |-> "RZ", wires |-> <<2>>, par |-> color_avg[2]] >>
    \o [k \in 1..6 |->
          IF k % 2 = 1
          THEN [name |-> "Hadamard", wires |-> <<4 + (k - 1) \div 2>>, par |-> 0]
          ELSE [name |-> "RZ", wires |-> <<4 + (k - 1) \div 2>>,
                par |-> FMul(color_avg[1], PI)]]
    \o [i \in 1..Wires |->
          [name |-> "CNOT", wires |-> <<i - 1, i % Wires>>, par |-> 0]]

\* a variant whose register carries over from the call before
Reset_stale(dev) == dev

\* the state a tape starts from: the device resets its register
Reset(dev) == ZeroState

\* q_coherence_scan on device state dev: the register it leaves and its result
Execute(dev, theta, color_avg) ==
    LET tape == Tape(theta, color_avg)
        final == ApplyAll(Reset(dev), tape, Len(tape))
    IN  [state |-> final,
         result |-> RoundDiv(SumSeq([w \in 1..Wires |-> ExpvalZ(final, w - 1)]), 7)]

\* ---------------------------------------------------------------- prompts
\* f"{x:.4f}": a float printed with four decimals
Fmt4(x) == RoundDiv(x * 10000, ONE)

corruption_stage1(theta, q_score, color_avg) ==
    [stage |-> 1, theta |-> Fmt4(theta), q_score |-> Fmt4(q_score),
     color_avg |-> color_avg]

\* a variant whose prompt ignores the alignment it is given
corruption_stage2_fixed(alignment, theta) ==
    [stage |-> 2, alignment |-> <<"alignment", 0, 0>>]

\* theta is a parameter the prompt text never uses
corruption_stage2(alignment, theta) ==
    [stage |-> 2, alignment |-> alignment]

\* ------------------------------------------------------ the remote service
Keys1 == {"alignment", "summary", "risk_score"}
Keys2 == {"branches", "intervention"}
AllKeys == Keys1 \cup Keys2

\* the member sets of the JSON objects the model's service answers with: every
\* key, and every key but one
KeySets == {AllKeys} \cup {AllKeys \ {k} : k \in AllKeys}

\* what the service can send back for request `stage` of run `run`: prose that
\* is no JSON, a JSON array, or a JSON object whose values are fresh
Contents(run, stage) ==
    {[kind |-> "text"], [kind |-> "array"]}
    \cup {[kind |-> "object", members |-> [k \in ks |-> <<k, run, stage>>]] :
            ks \in KeySets}

\* what openai.ChatCompletion.create can do with a request: the connection
\* fails, or the request is refused for want of an API key, or a completion
\* comes back
Create(key, run, stage) ==
    {[error |-> "APIConnectionError"]}
    \cup IF key = ""
         THEN {[error |-> "AuthenticationError"]}
         ELSE {[error |-> "", content |-> c] : c \in Contents(run, stage)}

\* json.loads of a completion's content
json_loads(content) ==
    CASE content.kind = "text" -> [raised |-> <<"JSONDecodeError">>]
      [] content.kind = "array" -> [raised |-> <<>>, value |-> [type |-> "list"]]
      [] content.kind = "object" ->
            [raised |-> <<>>, value |-> [type |-> "dict", items |-> content.members]]

\* a variant that catches every failure and answers with an empty object
ask_swallowing(res) ==
    IF res.error # "" \/ res.content.kind = "text"
    THEN [raised |-> <<>>, value |-> [type |-> "dict", items |-> [k \in {} |-> 0]]]
    ELSE json_loads(res.content)

\* QTruthDetector.ask, given what create did: nothing is caught
ask(res) ==
    IF res.error # "" THEN [raised |-> <<res.error>>] ELSE json_loads(res.content)

\* a variant that reads a missing key as null, as obj.get(key) would
GetItem_default(obj, key) ==
    IF obj.type # "dict" THEN [raised |-> <<"TypeError">>]
    ELSE IF key \notin DOMAIN obj.items THEN [raised |-> <<>>, value |-> <<"null">>]
    ELSE [raised |-> <<>>, value |-> obj.items[key]]

\* obj[key] of a parsed response
GetItem(obj, key) ==
    IF obj.type # "dict" THEN [raised |-> <<"TypeError">>]
    ELSE IF key \notin DOMAIN obj.items THEN [raised |-> <<"KeyError", key>>]
    ELSE [raised |-> <<>>, value |-> obj.items[key]]

\* ------------------------------------------------------------- the report
\* datetime.utcnow().isoformat(): seconds and the fraction of the second
IsoFormat(t) == <<t \div TicksPerSec, t % TicksPerSec>>

\* f"corruption_report_{int(time.time())}.json"
FileName(t) == <<"corruption_report_", t \div TicksPerSec, ".json">>

\* a variant that reads the alignment from the second response
MakeReport_crossed(now, theta, q_score, resp1, resp2) ==
    LET gets == << GetItem(resp2, "alignment"), GetItem(resp1, "risk_score"),
                   GetItem(resp1, "summary"), GetItem(resp2, "branches"),
                   GetItem(resp2, "intervention") >>
        bad == {i \in 1..5 : gets[i].raised # <<>>}
    IN  IF bad # {}
        THEN [raised |-> gets[CHOOSE i \in bad : \A j \in bad : i <= j].raised]
        ELSE [raised |-> <<>>,
              value |-> [timestamp |-> IsoFormat(now),
                         theta |-> theta,
                         q_score |-> q_score,
                         alignment |-> gets[1].value,
                         risk_score |-> gets[2].value,
                         summary |-> gets[3].value,
                         branches |-> gets[4].value,
                         intervention |-> gets[5].value]]

\* the dict display of lines 122-131: its lookups are evaluated in order and
\* the first that fails raises
MakeReport(now, theta, q_score, resp1, resp2) ==
    LET gets == << GetItem(resp1, "alignment"), GetItem(resp1, "risk_score"),
                   GetItem(resp1, "summary"), GetItem(resp2, "branches"),
                   GetItem(resp2, "intervention") >>
        bad == {i \in 1..5 : gets[i].raised # <<>>}
    IN  IF bad # {}
        THEN [raised |-> gets[CHOOSE i \in bad : \A j \in bad : i <= j].raised]
        ELSE [raised |-> <<>>,
              value |-> [timestamp |-> IsoFormat(now),
                         theta |-> theta,
                         q_score |-> q_score,
                         alignment |-> gets[1].value,
                         risk_score |-> gets[2].value,
                         summary |-> gets[3].value,
                         branches |-> gets[4].value,
                         intervention |-> gets[5].value]]

\* json.dump(report, f): the file holds one JSON object
json_dump(report) == [type |-> "dict", items |-> report]

\* the file system after open(name, "w") and the write: the file is created,
\* or truncated and replaced
WriteFile(files, name, content) ==
    [n \in DOMAIN files \cup {name} |-> IF n = name THEN content ELSE files[n]]

\* ------------------------------------------------------------------ inputs
Components == {-(ONE \div 2), 0, ONE}
Vectors == [1..VecLen -> Components]
ZeroVector == [i \in 1..VecLen |-> 0]

\* what face_recognition.face_encodings can return: no face, one, or two
FaceLists == {<<>>} \cup {<<v>> : v \in Vectors} \cup {<<v, ZeroVector>> : v \in Vectors}

\* RGB pixels; <<255, 0, 6>> has the largest hue of the 8-bit conversion
Colours == { <<0, 0, 0>>, <<255, 255, 255>>, <<128, 128, 128>>, <<255, 0, 0>>,
             <<255, 0, 6>>, <<0, 255, 0>>, <<0, 0, 255>>, <<10, 200, 30>>,
             <<200, 30, 201>>, <<1, 0, 0>> }
PixelLists == UNION {[1..n -> Colours] : n \in 1..MaxPixels}

ImageInputs == [faces : FaceLists, pixels : PixelLists]

\* the images suspect.jpg is in the pipeline specification
RunImages ==
    { [faces |-> <<>>, pixels |-> << <<10, 200, 30>> >>],
      [faces |-> << [i \in 1..VecLen |-> ONE] >>, pixels |-> << <<255, 0, 6>> >>],
      [faces |-> << [i \in 1..VecLen |-> -(ONE \div 2)], ZeroVector >>,
       pixels |-> << <<10, 200, 30>> >>] }

\* OPENAI_API_KEY: unset (the default "") or set
ApiKeys == {"", "sk-test"}

\* the arguments of q_coherence_scan in the circuit specification
ScanArgs ==
    [theta : {0, PI \div 3, PI},
     color_avg : {<<0, 0>>, <<ONE \div 2, ONE>>, <<ONE, ONE \div 2>>}]

\* seeds the generators can be left with
Seeds == {42, 1234}

\* ------------------------------------------------------------------- state
VARIABLES
    clock,      \* the wall clock, in ticks
    fs,         \* the working directory: file name -> content
    writes,     \* every write so far: <<run, name, content>>
    started,    \* runs started
    completed,  \* runs that returned from run_analysis
    pc,         \* the statement of run_analysis about to execute
    image,      \* the image at IMAGE_PATH
    api_key,    \* openai.api_key
    rng,        \* the seed of random and np.random
    DEV,        \* the register of the device
    frame,      \* the local variables of run_analysis bound so far
    raised,     \* the uncaught exception, <<>> when none
    trace,      \* the steps of this run, in order
    sent,       \* the prompts handed to ask in this run, in order
    failed,     \* the remote requests of this run that failed
    opens,      \* how often this run opened its output file
    calls,      \* circuit specification: calls of q_coherence_scan so far
    args,       \* ... the arguments of the last call
    q_ret,      \* ... and its result
    prev_args,  \* ... the arguments of the call before
    prev_ret,   \* ... and its result
    queued,     \* ... the operations the last call queued
    arg_image,  \* image specification: the argument of from_image
    profile     \* ... and what it returned or raised

envVars == <<clock, fs, writes, started, completed>>
runVars == <<pc, image, api_key, frame, raised, trace, sent, failed, opens>>
devVars == <<rng, DEV>>
scanVars == <<calls, args, q_ret, prev_args, prev_ret, queued>>
imageVars == <<arg_image, profile>>
vars == <<envVars, runVars, devVars, scanVars, imageVars>>

NoFrame == [n \in {} |-> 0]
Bind(f, name, value) ==
    [n \in DOMAIN f \cup {name} |-> IF n = name THEN value ELSE f[n]]

InitRest ==
    /\ clock = 0
    /\ fs = [n \in {} |-> 0]
    /\ writes = <<>>
    /\ started = 0
    /\ completed = 0
    /\ pc = "idle"
    /\ image = [faces |-> <<>>, pixels |-> <<>>]
    /\ api_key = ""
    /\ rng = 0
    /\ DEV = ZeroState
    /\ frame = NoFrame
    /\ raised = <<>>
    /\ trace = <<>>
    /\ sent = <<>>
    /\ failed = 0
    /\ opens = 0
    /\ calls = 0
    /\ args = [theta |-> 0, color_avg |-> <<0, 0>>]
    /\ q_ret = 0
    /\ prev_args = [theta |-> 0, color_avg |-> <<0, 0>>]
    /\ prev_ret = 0
    /\ queued = <<>>
    /\ profile = NoFrame

Init ==
    /\ InitRest
    /\ arg_image = [faces |-> <<>>, pixels |-> <<>>]

\* q_coherence_scan(theta, color_avg) on the module's device DEV
q_coherence_scan(theta, color_avg) == Execute(DEV, theta, color_avg)

\* ---------------------------------------------------- the pipeline's steps
\* time passes
Tick ==
    /\ clock < MaxClock
    /\ clock' = clock + 1
    /\ UNCHANGED <<fs, writes, started, completed, runVars, devVars, scanVars, imageVars>>

\* python main.py: the module is imported (the key is read, the device is
\* made), QTruthDetector() seeds the generators, run_analysis is entered
Start ==
    /\ pc \in {"idle", "returned", "raised"}
    /\ started < MaxRuns
    /\ \E im \in RunImages, key \in ApiKeys :
          /\ image' = im
          /\ api_key' = key
    /\ started' = started + 1
    /\ rng' = 42
    /\ DEV' = ZeroState
    /\ frame' = NoFrame
    /\ raised' = <<>>
    /\ trace' = <<>>
    /\ sent' = <<>>
    /\ failed' = 0
    /\ opens' = 0
    /\ pc' = "from_image"
    /\ UNCHANGED <<clock, fs, writes, completed, scanVars, imageVars>>

\* line 115: vec, theta, color_avg = QuantumImageProfile.from_image(img_path)
FromImage ==
    /\ pc = "from_image"
    /\ LET p == from_image(image)
       IN  IF p.raised # ""
           THEN /\ raised' = <<"ValueError", p.raised>>
                /\ pc' = "raised"
                /\ frame' = frame
           ELSE /\ frame' = Bind(Bind(Bind(frame, "vec", p.vector), "theta", p.theta),
                                 "color_avg", p.color_avg)
                /\ pc' = "scan"
                /\ raised' = raised
    /\ trace' = Append(trace, "from_image")
    /\ UNCHANGED <<envVars, image, api_key, sent, failed, opens, devVars, scanVars, imageVars>>

\* line 116: q_score = float(q_coherence_scan(theta, color_avg))
Scan ==
    /\ pc = "scan"
    /\ LET e == q_coherence_scan(frame.theta, frame.color_avg)
       IN  /\ DEV' = e.state
           /\ frame' = Bind(frame, "q_score", e.result)
    /\ trace' = Append(trace, "scan")
    /\ pc' = "ask1"
    /\ UNCHANGED <<envVars, image, api_key, raised, sent, failed, opens, rng, scanVars, imageVars>>

\* whether a request failed: no completion, or one that is no JSON
Failed(res) == res.error # "" \/ res.content.kind = "text"

\* a variant of line 119 that saves an interim report once r1 is parsed
Stage1_saving ==
    /\ pc = "ask1"
    /\ \E res \in Create(api_key, started, 1) :
          LET r == ask(res)
          IN  /\ failed' = IF Failed(res) THEN failed + 1 ELSE failed
              /\ IF r.raised # <<>>
                 THEN /\ raised' = r.raised
                      /\ pc' = "raised"
                      /\ frame' = frame
                      /\ UNCHANGED <<fs, writes, opens>>
                 ELSE /\ frame' = Bind(frame, "r1", r.value)
                      /\ pc' = "ask2"
                      /\ raised' = raised
                      /\ fs' = WriteFile(fs, FileName(clock), r.value)
                      /\ writes' = Append(writes, <<started, FileName(clock), r.value>>)
                      /\ opens' = opens + 1
    /\ sent' = Append(sent, corruption_stage1(frame.theta, frame.q_score, frame.color_avg))
    /\ trace' = Append(trace, "ask1")
    /\ UNCHANGED <<clock, started, completed, image, api_key, devVars, scanVars, imageVars>>

\* line 119: r1 = s.ask(corruption_stage1(theta, q_score, color_avg))
Stage1 ==
    /\ pc = "ask1"
    /\ \E res \in Create(api_key, started, 1) :
          LET r == ask(res)
          IN  /\ failed' = IF Failed(res) THEN failed + 1 ELSE failed
              /\ IF r.raised # <<>>
                 THEN /\ raised' = r.raised
                      /\ pc' = "raised"
                      /\ frame' = frame
                 ELSE /\ frame' = Bind(frame, "r1", r.value)
                      /\ pc' = "ask2"
                      /\ raised' = raised
    /\ sent' = Append(sent, corruption_stage1(frame.theta, frame.q_score, frame.color_avg))
    /\ trace' = Append(trace, "ask1")
    /\ UNCHANGED <<envVars, image, api_key, opens, devVars, scanVars, imageVars>>

\* line 120: r2 = s.ask(corruption_stage2(r1["alignment"], theta))
Stage2 ==
    /\ pc = "ask2"
    /\ LET a == GetItem(frame.r1, "alignment")
       IN  IF a.raised # <<>>
           THEN /\ raised' = a.raised
                /\ pc' = "raised"
                /\ UNCHANGED <<frame, sent, trace, failed>>
           ELSE \E res \in Create(api_key, started, 2) :
                  LET r == ask(res)
                  IN  /\ failed' = IF Failed(res) THEN failed + 1 ELSE failed
                      /\ sent' = Append(sent, corruption_stage2(a.value, frame.theta))
                      /\ trace' = Append(trace, "ask2")
                      /\ IF r.raised # <<>>
                         THEN /\ raised' = r.raised
                              /\ pc' = "raised"
                              /\ frame' = frame
                         ELSE /\ frame' = Bind(frame, "r2", r.value)
                              /\ pc' = "report"
                              /\ raised' = raised
    /\ UNCHANGED <<envVars, image, api_key, opens, devVars, scanVars, imageVars>>

\* lines 122-131: report = {...}
BuildReport ==
    /\ pc = "report"
    /\ LET m == MakeReport(clock, frame.theta, frame.q_score, frame.r1, frame.r2)
       IN  IF m.raised # <<>>
           THEN /\ raised' = m.raised
                /\ pc' = "raised"
                /\ frame' = frame
           ELSE /\ frame' = Bind(frame, "report", m.value)
                /\ pc' = "save"
                /\ raised' = raised
    /\ UNCHANGED <<envVars, image, api_key, trace, sent, failed, opens, devVars, scanVars, imageVars>>

\* lines 133-135: the file is named after the second, opened for writing and
\* the report dumped into it; run_analysis returns
SaveReport ==
    /\ pc = "save"
    /\ LET fn == FileName(clock)
       IN  /\ frame' = Bind(frame, "fn", fn)
           /\ fs' = WriteFile(fs, fn, json_dump(frame.report))
           /\ writes' = Append(writes, <<started, fn, json_dump(frame.report)>>)
    /\ opens' = opens + 1
    /\ completed' = completed + 1
    /\ trace' = Append(trace, "open")
    /\ pc' = "returned"
    /\ UNCHANGED <<clock, started, image, api_key, raised, sent, failed, devVars, scanVars, imageVars>>

Next ==
    \/ Tick
    \/ Start
    \/ FromImage
    \/ Scan
    \/ Stage1
    \/ Stage2
    \/ BuildReport
    \/ SaveReport

Spec == Init /\ [][Next]_vars

\* ------------------------------------------- the circuit, called repeatedly
\* the name and wires of each queued operation
Shape(tape) == [i \in 1..Len(tape) |-> <<tape[i].name, tape[i].wires>>]

\* one call of q_coherence_scan on the module's device
CallScan ==
    /\ calls < MaxCalls
    /\ \E a \in ScanArgs :
          LET e == q_coherence_scan(a.theta, a.color_avg)
          IN  /\ args' = a
              /\ q_ret' = e.result
              /\ DEV' = e.state
              /\ queued' = Shape(Tape(a.theta, a.color_avg))
    /\ prev_args' = args
    /\ prev_ret' = q_ret
    /\ calls' = calls + 1
    /\ UNCHANGED <<envVars, runVars, rng, imageVars>>

\* other code seeds or draws from the generators between calls
Reseed ==
    /\ \E sd \in Seeds \ {rng} : rng' = sd
    /\ UNCHANGED <<envVars, runVars, DEV, scanVars, imageVars>>

NextScan ==
    \/ CallScan
    \/ Reseed

SpecScan == Init /\ [][NextScan]_vars

\* ------------------------------------------------ from_image, on any image
InitImage ==
    /\ InitRest
    /\ arg_image \in ImageInputs

CallFromImage ==
    /\ DOMAIN profile = {}
    /\ profile' = from_image(arg_image)
    /\ UNCHANGED <<envVars, runVars, devVars, scanVars, arg_image>>

NextImage == CallFromImage

SpecImage == InitImage /\ [][NextImage]_vars

\* ================================================================== claims
SumSq(vector) == SumSeq([i \in 1..Len(vector) |-> vector[i] * vector[i]])

\* C6: for every face-descriptor vector the angle from_image computes lies in
\* [0, pi]; it is pi times the Euclidean norm when the norm is below 1 and
\* exactly pi when the norm is 1 or more.
C6_AngleBounded ==
    "theta" \in DOMAIN profile =>
        LET v == arg_image.faces[1]
        IN  /\ profile.vector = v
            /\ 0 <= profile.theta /\ profile.theta <= PI
            /\ SumSq(v) < ONE * ONE =>
                  /\ profile.theta = RoundDiv(ISqrt(SumSq(v)) * PI, ONE)
                  /\ profile.theta < PI
            /\ SumSq(v) >= ONE * ONE => profile.theta = PI

\* C6 happens: a vector of norm above 1 whose angle is clamped to pi
C6_Witness ==
    /\ "theta" \in DOMAIN profile
    /\ SumSq(arg_image.faces[1]) > ONE * ONE
    /\ profile.theta = PI

\* the hue and the saturation of every pixel of the image after the conversion
Hues(pixels) == {RGB2HSV(pixels[i])[1] : i \in 1..Len(pixels)}
Saturations(pixels) == {RGB2HSV(pixels[i])[2] : i \in 1..Len(pixels)}

\* C7: for every image both components of the color-average pair lie in
\* [0, 1]: they are the mean hue over 180 and the mean saturation over 255,
\* and every pixel's hue is in 0..179 and saturation in 0..255.
C7_ColorAvgInUnitInterval ==
    "color_avg" \in DOMAIN profile =>
        LET px == arg_image.pixels
            n == Len(px)
            sumH == SumSeq([i \in 1..n |-> RGB2HSV(px[i])[1]])
            sumS == SumSeq([i \in 1..n |-> RGB2HSV(px[i])[2]])
        IN  /\ Hues(px) \subseteq 0..179
            /\ Saturations(px) \subseteq 0..255
            /\ 0 <= profile.color_avg[1] /\ profile.color_avg[1] <= ONE
            /\ 0 <= profile.color_avg[2] /\ profile.color_avg[2] <= ONE
            \* each component is its channel's mean over the channel's range,
            \* to within the rounding of the two divisions
            /\ (profile.color_avg[1] - 1) * 180 * n <= sumH * ONE
            /\ sumH * ONE <= (profile.color_avg[1] + 1) * 180 * n
            /\ (profile.color_avg[2] - 1) * 255 * n <= sumS * ONE
            /\ sumS * ONE <= (profile.color_avg[2] + 1) * 255 * n

\* C7 happens: an image of fully saturated pixels, one with the largest hue
C7_Witness ==
    /\ "color_avg" \in DOMAIN profile
    /\ 179 \in Hues(arg_image.pixels)
    /\ Saturations(arg_image.pixels) = {255}
    /\ profile.color_avg[2] = ONE

\* the gates of lines 36-43 and their wires
GateSequence ==
    << <<"RY", <<0>>>>, <<"RX", <<1>>>>, <<"RZ", <<2>>>>,
       <<"Hadamard", <<4>>>>, <<"RZ", <<4>>>>,
       <<"Hadamard", <<5>>>>, <<"RZ", <<5>>>>,
       <<"Hadamard", <<6>>>>, <<"RZ", <<6>>>>,
       <<"CNOT", <<0, 1>>>>, <<"CNOT", <<1, 2>>>>, <<"CNOT", <<2, 3>>>>,
       <<"CNOT", <<3, 4>>>>, <<"CNOT", <<4, 5>>>>, <<"CNOT", <<5, 6>>>>,
       <<"CNOT", <<6, 0>>>> >>

RunEnded == pc \in {"returned", "raised"}
Bound(name) == name \in DOMAIN frame
IsDict(name) == Bound(name) /\ frame[name].type = "dict"
Has(name, key) == IsDict(name) /\ key \in DOMAIN frame[name].items

\* the writes of the current run
RunWrites == {i \in 1..Len(writes) : writes[i][1] = started}

StepOrder == <<"from_image", "scan", "ask1", "ask2", "open">>
IsPrefix(s, t) == Len(s) <= Len(t) /\ \A i \in 1..Len(s) : s[i] = t[i]

\* C1: when no face is found, from_image raises the 'No face found in
\* image.' ValueError every time and the run ends there: the circuit is not
\* evaluated, no request is issued, no report file is created or written.
C1_NoFaceAborts ==
    (started > 0 /\ pc # "from_image" /\ image.faces = <<>>) =>
        /\ pc = "raised"
        /\ raised = <<"ValueError", "ValueError: No face found in image.">>
        /\ trace = <<"from_image">>
        /\ ~Bound("q_score")
        /\ DEV = ZeroState
        /\ sent = <<>>
        /\ opens = 0
        /\ RunWrites = {}

\* C1 happens: a second run, after one that wrote its report, finds no face
C1_Witness ==
    /\ started = 2
    /\ completed = 1
    /\ image.faces = <<>>
    /\ pc = "raised"
    /\ raised = <<"ValueError", NoFace>>

\* C2: after any number of completed runs the report files on disk are as
\* many as the completed runs, and every report written is still on disk.
C2_OneFilePerRun ==
    /\ Cardinality(DOMAIN fs) = completed
    /\ \A i \in 1..Len(writes) : fs[writes[i][2]] = writes[i][3]

\* the fields the report reads are all there
FieldsPresent ==
    /\ \A k \in Keys1 : Has("r1", k)
    /\ \A k \in Keys2 : Has("r2", k)

C3_AtMostOnceAndLast ==
    /\ opens <= 1
    /\ Cardinality(RunWrites) = opens
    /\ ~Bound("r2") => opens = 0
    /\ opens = 1 => pc = "returned" /\ trace = StepOrder

\* C3 (as amended): the output file is touched at most once in a run, as the
\* last step and never before the second response is parsed; it is opened
\* and written exactly once in a run where extraction, evaluation and both
\* responses succeeded and the responses hold every field the report reads.
C3_OutputTouchedOnce ==
    /\ C3_AtMostOnceAndLast
    /\ (RunEnded /\ Bound("r1") /\ Bound("r2") /\ FieldsPresent) => opens = 1

\* C3 as stated: exactly once whenever extraction, evaluation and both
\* responses succeeded.
C3_AsStated ==
    /\ C3_AtMostOnceAndLast
    /\ (RunEnded /\ Bound("q_score") /\ Bound("r1") /\ Bound("r2")) => opens = 1

\* C3 happens: a run that returned after writing its file once
C3_Witness ==
    /\ pc = "returned"
    /\ opens = 1
    /\ FieldsPresent
    /\ trace[Len(trace)] = "open"

AskErrors == {<<"AuthenticationError">>, <<"APIConnectionError">>, <<"JSONDecodeError">>}

\* C4: a failed remote request (no credential, no connection, content that
\* is no JSON) is neither caught nor retried: each of the two requests is
\* issued at most once in a run, the failure ends the run, and the run
\* writes no report.
C4_RemoteFailureAborts ==
    /\ failed <= 1
    /\ Len(sent) <= 2
    /\ \A i, j \in 1..Len(sent) : sent[i].stage = sent[j].stage => i = j
    /\ failed = 1 =>
          /\ pc = "raised"
          /\ raised \in AskErrors
          /\ sent[Len(sent)].stage = Len(sent)
          /\ opens = 0
          /\ RunWrites = {}
          /\ ~Bound("report")
    /\ (api_key = "" /\ Len(sent) > 0) => failed = 1

\* C4 happens: the second request's content is no JSON
C4_Witness ==
    /\ failed = 1
    /\ Len(sent) = 2
    /\ raised = <<"JSONDecodeError">>
    /\ pc = "raised"

ReportOfRun ==
    /\ frame.report.theta = frame.theta
    /\ frame.theta = ThetaOf(image.faces[1])
    /\ frame.report.q_score = frame.q_score
    /\ frame.color_avg = ColorAvgOf(image.pixels)
    /\ frame.q_score = RoundDiv(SumSeq([w \in 1..Wires |-> ExpvalZ(DEV, w - 1)]), 7)
    /\ frame.report.alignment = frame.r1.items["alignment"]
    /\ frame.report.alignment = <<"alignment", started, 1>>
    /\ frame.report.risk_score = frame.r1.items["risk_score"]
    /\ frame.report.risk_score = <<"risk_score", started, 1>>
    /\ frame.report.summary = frame.r1.items["summary"]
    /\ frame.report.summary = <<"summary", started, 1>>
    /\ frame.report.branches = frame.r2.items["branches"]
    /\ frame.report.branches = <<"branches", started, 2>>
    /\ frame.report.intervention = frame.r2.items["intervention"]
    /\ frame.report.intervention = <<"intervention", started, 2>>
    /\ \E t \in 0..clock :
          /\ frame.report.timestamp = IsoFormat(t)
          /\ FileName(t)[2] <= frame.fn[2]
    /\ writes[Len(writes)] = <<started, frame.fn, json_dump(frame.report)>>
    /\ fs[frame.fn] = json_dump(frame.report)

\* C5 (as amended): the report a successful run writes holds the timestamp,
\* theta and q_score of that run, alignment, risk score and summary from the
\* first response, branches and intervention from the second, and nothing
\* else: the color-average pair is not in it.
C5_ReportFields ==
    pc = "returned" =>
        /\ DOMAIN frame.report = {"timestamp", "theta", "q_score", "alignment",
                                  "risk_score", "summary", "branches", "intervention"}
        /\ ReportOfRun

\* C5 as stated: the report also holds the color-average pair.
C5_AsStated ==
    pc = "returned" =>
        /\ "color_avg" \in DOMAIN frame.report
        /\ ReportOfRun

\* C5 happens: the second successful run, whose second response also holds
\* an alignment
C5_Witness ==
    /\ pc = "returned"
    /\ started = 2
    /\ completed = 2
    /\ Has("r2", "alignment")
    /\ frame.r2.items["alignment"] # frame.report.alignment

\* C9: the steps of a run occur in the order face extraction, circuit
\* evaluation, stage-1 request, stage-2 request, file write; the stage-2
\* request is issued only once the stage-1 response is parsed, its prompt is
\* built from that response's alignment, and a run that succeeds issues
\* exactly two requests.
C9_FixedOrder ==
    /\ IsPrefix(trace, StepOrder)
    /\ Len(sent) = Cardinality({i \in 1..Len(trace) : trace[i] \in {"ask1", "ask2"}})
    /\ Len(sent) >= 1 =>
          sent[1] = corruption_stage1(frame.theta, frame.q_score, frame.color_avg)
    /\ Len(sent) >= 2 =>
          /\ Has("r1", "alignment")
          /\ sent[2].stage = 2
          /\ sent[2].alignment = frame.r1.items["alignment"]
    /\ pc = "returned" => Len(sent) = 2 /\ trace = StepOrder

\* C9 happens: a run went through all five steps
C9_Witness ==
    /\ pc = "returned"
    /\ trace = StepOrder
    /\ Len(sent) = 2
    /\ sent[2].alignment = <<"alignment", started, 1>>

FieldsPresentIn1 == \A k \in Keys1 : Has("r1", k)

\* a run that ended on a missing field after `requests` requests
C10_Aborted(key, requests) ==
    /\ pc = "raised"
    /\ raised = <<"KeyError", key>>
    /\ Len(sent) = requests
    /\ opens = 0
    /\ RunWrites = {}

\* C10: a well-formed stage-1 object lacking "alignment" ends the run before
\* the stage-2 request is issued; one lacking "risk_score" or "summary" ends
\* it only when the report is built, after the stage-2 request was issued
\* and answered; a stage-2 object lacking "branches" or "intervention" ends
\* it before the file is opened. No file is written in any of these runs.
C10_MissingFields ==
    /\ (IsDict("r1") /\ ~Has("r1", "alignment") /\ pc # "ask2") =>
          C10_Aborted("alignment", 1) /\ ~Bound("r2")
    /\ \A k \in {"risk_score", "summary"} :
          /\ (Has("r1", "alignment") /\ ~Has("r1", k)) => pc # "returned" /\ opens = 0
          /\ (Has("r1", "alignment") /\ ~Has("r1", k) /\ pc = "ask2") => Len(sent) = 1
          /\ (Has("r1", "alignment") /\ ~Has("r1", k) /\ Bound("r2") /\ pc # "report") =>
                C10_Aborted(k, 2)
    /\ \A k \in Keys2 :
          (FieldsPresentIn1 /\ IsDict("r2") /\ ~Has("r2", k) /\ pc # "report") =>
                C10_Aborted(k, 2)

\* C10 happens: the first response lacks "risk_score", and the run ended
\* with both requests answered
C10_Witness ==
    /\ pc = "raised"
    /\ raised = <<"KeyError", "risk_score">>
    /\ Bound("r2")
    /\ Len(sent) = 2

====
